---- MODULE Spec2Model ----
(***************************************************************************)
(* Runtime Process Lifecycle Manager (src-tauri/src/process.rs).           *)
(*                                                                         *)
(* State: the process registry (handle -> ProcessInfo), the output map     *)
(* (handle -> captured text), the OS child processes spawned by            *)
(* start_runtime together with their stdout pipes and reader threads.      *)
(* Every handler is an operator from the state before the call (and the    *)
(* outcome of its external commands) to its result and the state after.    *)
(* Text is a sequence of characters ("Input: ", the prefix that            *)
(* send_to_process writes, is one piece); "\n" and "\r" are the line       *)
(* breaks.  The variable last holds the call that has just returned.       *)
(* Where calls run concurrently, tasks holds the calls in flight, each at  *)
(* the lock or the external command it has reached, and locks the owner    *)
(* of the mutex of each map.                                               *)
(***************************************************************************)
EXTENDS Integers, Sequences, FiniteSets, TLC

VARIABLES registry, output, children, last, tasks, locks

vars == <<registry, output, children, last, tasks, locks>>

(***************************************************************************)
(* Bounds of the model.                                                    *)
(***************************************************************************)
\* generate_pid reduces the clock modulo u32::MAX; the model reduces it
\* modulo PidModulus, so that the wrap-around of the clock is reachable.
PidModulus == 2
\* The clock readings (nanoseconds since the epoch) range over 0..MaxNanos.
MaxNanos == 3
\* Longest captured text kept per handle.
MaxBuf == 6
\* Lines a child process writes to its standard output.
MaxLines == 1
\* Width of the handle arithmetic: u32 wraps at 2^32, the model at U32Modulus.
U32Modulus == 256

(***************************************************************************)
(* Values.                                                                 *)
(***************************************************************************)
NL == "\n"
CR == "\r"

Running == "Running"
Stopped == "Stopped"

\* Option<T>: None is the empty sequence, Some(v) the sequence of v alone.
None == <<>>
Some(v) == <<v>>

\* RuntimeStatus (uptime_seconds is None wherever one is built).
RuntimeStatus(status, version, port, error) ==
    [status |-> status, version |-> version, uptime_seconds |-> None,
     port |-> port, error |-> error]

\* ResourceUsage.  The f64 values are fixed-point numbers: memory_mb counts
\* 1/1024 MB, cpu_percent counts percents.
ResourceUsage(memory_mb, vram_mb, cpu_percent) ==
    [memory_mb |-> memory_mb, vram_mb |-> vram_mb, cpu_percent |-> cpu_percent]

\* The fields of a result that carries no status, no usage.
NoStatus == RuntimeStatus("-", None, None, None)
NoUsage == ResourceUsage(0, None, 0)

\* Result<T, String> for every T the commands return; the fields that a
\* result does not use are empty.
ResultOf(ok, err, handle, text, list, status, usage, runtimes) ==
    [ok |-> ok, err |-> err, handle |-> handle, text |-> text, list |-> list,
     status |-> status, usage |-> usage, runtimes |-> runtimes]

\* Result<T, String>: Ok(()), Ok(handle), Ok(text), Ok(list of lines) and
\* Err(message).
Result(ok, err, handle, text, list) ==
    ResultOf(ok, err, handle, text, list, NoStatus, NoUsage, <<>>)

\* No handle, and no identifier.
NoPid == 0 - 1
NoId == <<"-">>

OkUnit == Result(TRUE, "", NoPid, <<>>, <<>>)
OkHandle(pid) == Result(TRUE, "", pid, <<>>, <<>>)
OkText(text) == Result(TRUE, "", NoPid, text, <<>>)
OkList(list) == Result(TRUE, "", NoPid, <<>>, list)
Err(m) == Result(FALSE, m, NoPid, <<>>, <<>>)
\* Err(format!("{}{}", m, arg)): the message's fixed part, and in text the
\* argument that follows it.
ErrWith(m, arg) == Result(FALSE, m, NoPid, arg, <<>>)
OkStatus(status) == ResultOf(TRUE, "", NoPid, <<>>, <<>>, status, NoUsage, <<>>)
OkUsage(usage) == ResultOf(TRUE, "", NoPid, <<>>, <<>>, NoStatus, usage, <<>>)
OkRuntimes(runtimes) == ResultOf(TRUE, "", NoPid, <<>>, <<>>, NoStatus, NoUsage, runtimes)

\* AppError::ProcessError { pid, message }.to_string(): the message decides
\* the kind of the error, the pid is the one of the call.
ProcessNotFound == "Process not found"
ProcessOutputNotFound == "Process output not found"

\* HashMap::insert: the entry under k is created or replaced.
Insert(map, k, v) == [x \in DOMAIN map \cup {k} |-> IF x = k THEN v ELSE map[x]]

EmptyMap == [x \in {} |-> 0]

Range(seq) == {seq[i] : i \in DOMAIN seq}

(***************************************************************************)
(* Inputs of the calls.                                                    *)
(***************************************************************************)
\* The process ids the operating system hands out to children.  One id is
\* enough for every case of a handle of start_runtime: it is given out again
\* after the child has exited, and generate_pid can produce it too.
OsPids == {1}

\* Handles the callers pass: every handle the program can return, and so
\* also handles that are not (yet) registered.
RECURSIVE MaxOf(_)
MaxOf(S) == IF S = {} THEN 0
            ELSE LET x == CHOOSE y \in S : TRUE
                     m == MaxOf(S \ {x})
                 IN IF x > m THEN x ELSE m

Handles == 0..MaxOf({PidModulus - 1} \cup OsPids)

ToolIds == {"tool1"}
WorkingDirs == {"/tmp"}

\* Texts sent by send_to_process: one line, and one with a line break in it.
Inputs == {<<"a">>, <<"b", CR>>}

(***************************************************************************)
(* The state a handler works on, and what it returns.                      *)
(***************************************************************************)
State(reg, out, ch) == [registry |-> reg, output |-> out, children |-> ch]

Now == State(registry, output, children)

\* A handler's result together with the state it leaves.
Return(res, s) == [res |-> res, s |-> s]

(***************************************************************************)
(* Tracked processes: spawn_cli_process, send_to_process, kill_process,    *)
(* get_process_output, stream_process_output.                              *)
(***************************************************************************)
\* generate_pid: the clock reading reduced modulo u32::MAX (here PidModulus).
generate_pid(nanos) == nanos % PidModulus

ProcessInfo(pid, tool_id, working_dir, status) ==
    [pid |-> pid, tool_id |-> tool_id, working_dir |-> working_dir, status |-> status]

\* spawn_cli_process: a Running record and an empty buffer are inserted
\* under the generated pid, whatever was stored under it before.
spawn_cli_process(s, tool_id, working_dir, nanos) ==
    LET pid == generate_pid(nanos)
    IN Return(OkHandle(pid),
              [s EXCEPT !.registry = Insert(@, pid, ProcessInfo(pid, tool_id, working_dir, Running)),
                        !.output = Insert(@, pid, <<>>)])

\* format!("Input: {}\n", input)
InputRecord(input) == <<"Input: ">> \o input \o <<NL>>

\* (a send_to_process that does not look the handle up in the registry)
send_to_process_unchecked(s, pid, input) ==
    Return(OkUnit,
           [s EXCEPT !.output = Insert(@, pid, (IF pid \in DOMAIN @ THEN @[pid] ELSE <<>>)
                                                   \o InputRecord(input))])

\* (a send_to_process that appends to every buffer)
send_to_process_shared(s, pid, input) ==
    IF pid \notin DOMAIN s.registry
    THEN Return(Err(ProcessNotFound), s)
    ELSE Return(OkUnit,
                [s EXCEPT !.output = [h \in DOMAIN @ |-> @[h] \o InputRecord(input)]])

\* (a send_to_process that stores the record in place of the buffer)
send_to_process_overwrites(s, pid, input) ==
    IF pid \notin DOMAIN s.registry
    THEN Return(Err(ProcessNotFound), s)
    ELSE Return(OkUnit,
                IF pid \in DOMAIN s.output
                THEN [s EXCEPT !.output[pid] = InputRecord(input)]
                ELSE s)

\* send_to_process: the registry decides whether the handle exists; the
\* text is appended only if the output map has the handle too.
send_to_process(s, pid, input) ==
    IF pid \notin DOMAIN s.registry
    THEN Return(Err(ProcessNotFound), s)
    ELSE Return(OkUnit,
                IF pid \in DOMAIN s.output
                THEN [s EXCEPT !.output[pid] = @ \o InputRecord(input)]
                ELSE s)

\* (a kill_process that drops the record)
kill_process_removes(s, pid) ==
    IF pid \in DOMAIN s.registry
    THEN Return(OkUnit,
                [s EXCEPT !.registry = [h \in DOMAIN @ \ {pid} |-> @[h]]])
    ELSE Return(Err(ProcessNotFound), s)

\* kill_process: the record's status becomes Stopped; nothing else changes.
kill_process(s, pid) ==
    IF pid \in DOMAIN s.registry
    THEN Return(OkUnit, [s EXCEPT !.registry[pid].status = Stopped])
    ELSE Return(Err(ProcessNotFound), s)

\* get_process_output: a copy of the buffer, or an error if the output map
\* has no entry for the handle.
get_process_output(s, pid) ==
    IF pid \in DOMAIN s.output
    THEN Return(OkText(s.output[pid]), s)
    ELSE Return(Err(ProcessOutputNotFound), s)

\* A line that ended in "\n", without the "\r" before it, if any.
StripCR(line) ==
    IF line # <<>> /\ line[Len(line)] = CR
    THEN SubSeq(line, 1, Len(line) - 1)
    ELSE line

\* str::lines: the text is cut after every "\n"; the "\n", and a "\r"
\* before it, are dropped from the line; what follows the last "\n" is a
\* line unless it is empty.
RECURSIVE LinesFrom(_, _)
LinesFrom(text, cur) ==
    IF text = <<>>
    THEN IF cur = <<>> THEN <<>> ELSE <<cur>>
    ELSE IF Head(text) = NL
         THEN <<StripCR(cur)>> \o LinesFrom(Tail(text), <<>>)
         ELSE LinesFrom(Tail(text), Append(cur, Head(text)))

lines(text) == LinesFrom(text, <<>>)

\* (a stream_process_output that fails as get_process_output does)
stream_process_output_strict(s, pid) ==
    IF pid \in DOMAIN s.output
    THEN Return(OkList(lines(s.output[pid])), s)
    ELSE Return(Err(ProcessOutputNotFound), s)

\* stream_process_output: the buffer's lines, or an empty list if the
\* output map has no entry for the handle.
stream_process_output(s, pid) ==
    IF pid \in DOMAIN s.output
    THEN Return(OkList(lines(s.output[pid])), s)
    ELSE Return(OkList(<<>>), s)

(***************************************************************************)
(* Runtime identifiers: "<type>_<discriminator>", as character sequences.  *)
(***************************************************************************)
Ollama == <<"o", "l", "l", "a", "m", "a">>
Localai == <<"l", "o", "c", "a", "l", "a", "i">>
Docker == <<"d", "o", "c", "k", "e", "r">>
Custom == <<"c", "u", "s", "t", "o", "m">>
Underscore == "_"

ContainerAb == <<"a", "b">>

OllamaId == Ollama \o <<Underscore>> \o Ollama
LocalaiId == Localai \o <<Underscore>> \o <<"l", "o", "c", "a", "l", "-", "a", "i">>
DockerAbId == Docker \o <<Underscore>> \o ContainerAb
CustomId == Custom \o <<Underscore>> \o <<"x">>

\* The identifiers the callers pass: ollama_ollama, localai_local-ai,
\* docker_ab, docker (no container reference) and custom_x.
RuntimeIds == {OllamaId, LocalaiId, DockerAbId, Docker, CustomId}

Python == <<"p", "y", "t", "h", "o", "n">>
Node == <<"n", "o", "d", "e">>

\* Identifiers as detect_runtime builds them for the interpreters.
PythonId == Python \o <<Underscore>> \o Python \o <<"3">>
NodeId == Node \o <<Underscore>> \o Node

\* The empty identifier, "docker_" (an empty container reference),
\* "docker_abc", and "x_x" (a type tag no match arm names).
EmptyId == <<>>
DockerEmptyRefId == Docker \o <<Underscore>>
DockerAbcId == Docker \o <<Underscore>> \o <<"a", "b", "c">>
OtherId == <<"x", Underscore, "x">>

\* "docker_a_b": a container reference with an underscore in it.
DockerUnderscoreId == Docker \o <<Underscore>> \o <<"a", Underscore, "b">>

\* Every identifier a caller of the dispatchers may pass.
AnyRuntimeIds ==
    RuntimeIds \cup {PythonId, NodeId, EmptyId, DockerEmptyRefId, DockerAbcId, OtherId,
                     DockerUnderscoreId}

\* The path scan_runtimes reports for an interpreter.
InterpreterPaths == {"/usr/bin/python3"}

\* Executable paths given to start_runtime; the empty path is what
\* restart_runtime passes.
EmptyPath == ""
ExecutablePaths == {EmptyPath, "/bin/srv"}
NoArgs == <<>>
NoDir == "None"

\* str::split(sep): the pieces between the separators; never an empty list
\* (the empty string splits into one empty piece).
RECURSIVE SplitAt(_, _, _)
SplitAt(str, sep, cur) ==
    IF str = <<>>
    THEN <<cur>>
    ELSE IF Head(str) = sep
         THEN <<cur>> \o SplitAt(Tail(str), sep, <<>>)
         ELSE SplitAt(Tail(str), sep, Append(cur, Head(str)))

split(str, sep) == SplitAt(str, sep, <<>>)

\* u8 value of a character of a container reference.
ByteOf(c) ==
    CASE c = "a" -> 97
      [] c = "b" -> 98
      [] c = "c" -> 99
      [] c = "x" -> 120
      [] c = "z" -> 122
      [] c = "_" -> 95
      [] OTHER -> 63

\* (an addition that stops at the largest value instead of wrapping)
saturating_add(a, b) == IF a + b >= U32Modulus THEN U32Modulus - 1 ELSE a + b

wrapping_add(a, b) == (a + b) % U32Modulus

\* bytes().fold(0u32, |acc, b| acc.wrapping_add(b as u32))
RECURSIVE FoldBytes(_, _)
FoldBytes(acc, str) ==
    IF str = <<>> THEN acc ELSE FoldBytes(wrapping_add(acc, ByteOf(Head(str))), Tail(str))

pseudo_pid(container_id) == FoldBytes(0, container_id)

(***************************************************************************)
(* The host: what a spawn, a docker command and the scheduler can do.      *)
(***************************************************************************)
\* A child process with piped stdout: whether it lives (stdout open), the
\* lines written and not yet read, all lines written, and the reader
\* thread ("none", "running", "done") with the buffer it appends to.
Child(reader) ==
    [alive |-> TRUE, pipe |-> <<>>, written |-> <<>>, reader |-> reader, captured |-> <<>>]


\* Process ids the operating system can give to a new child: those of no
\* live child (the id of an exited child is free again).
FreePids(s) == {p \in OsPids : p \notin DOMAIN s.children \/ ~s.children[p].alive}

\* Outcome of the external command of one call.  A spawn succeeds with a
\* free process id or fails; a docker command cannot be run ("norun"),
\* exits with a failure status ("failed") or succeeds ("success").
NoSpawn == [spawn |-> FALSE, ospid |-> NoPid, docker |-> "norun"]

SpawnEnvs(s) == [spawn : {TRUE}, ospid : FreePids(s), docker : {"norun"}] \cup {NoSpawn}

DockerEnvs == [spawn : {FALSE}, ospid : {NoPid}, docker : {"norun", "failed", "success"}]

\* The outcomes the host can produce for a call on this identifier: its
\* type tag decides which external command the call runs.
Envs(s, runtime_id) ==
    IF split(runtime_id, Underscore)[1] = Docker THEN DockerEnvs ELSE SpawnEnvs(s)

OutLines == {"x"}

(***************************************************************************)
(* start_runtime, stop_runtime, restart_runtime.                           *)
(***************************************************************************)
\* start_ollama_runtime: the record is inserted into the registry; the
\* reader thread appends to a buffer of its own.
start_ollama_runtime(s, env) ==
    IF ~env.spawn
    THEN Return(Err("Failed to start Ollama"), s)
    ELSE LET pid == env.ospid
         IN Return(OkHandle(pid),
                   [s EXCEPT !.registry = Insert(@, pid, ProcessInfo(pid, "ollama", "", Running)),
                             !.children = Insert(@, pid, Child("running"))])

\* start_localai_runtime: as for ollama, without a reader thread.
start_localai_runtime(s, env) ==
    IF ~env.spawn
    THEN Return(Err("Failed to start LocalAI"), s)
    ELSE LET pid == env.ospid
         IN Return(OkHandle(pid),
                   [s EXCEPT !.registry = Insert(@, pid, ProcessInfo(pid, "localai", "", Running)),
                             !.children = Insert(@, pid, Child("none"))])

\* (a start_docker_runtime that records the container before it starts it)
start_docker_runtime_eager(s, container_id, env) ==
    LET pid == pseudo_pid(container_id)
        recorded == [s EXCEPT !.registry = Insert(@, pid, ProcessInfo(pid, "docker", "", Running))]
    IN IF env.docker = "norun"
       THEN Return(Err("Failed to start Docker container"), recorded)
       ELSE IF env.docker # "success"
            THEN Return(Err("Docker start failed"), recorded)
            ELSE Return(OkHandle(pid), recorded)

\* start_docker_runtime: `docker start <container>`; the registry is not
\* touched, the handle is computed from the reference.
start_docker_runtime(s, container_id, env) ==
    IF env.docker = "norun"
    THEN Return(Err("Failed to start Docker container"), s)
    ELSE IF env.docker # "success"
         THEN Return(Err("Docker start failed"), s)
         ELSE Return(OkHandle(pseudo_pid(container_id)), s)

\* start_generic_runtime: the given executable is spawned (an empty path
\* cannot be), the record carries the path as tool id.
start_generic_runtime(s, executable_path, args, working_dir, env) ==
    IF ~env.spawn \/ executable_path = EmptyPath
    THEN Return(Err("Failed to start process"), s)
    ELSE LET pid == env.ospid
         IN Return(OkHandle(pid),
                   [s EXCEPT !.registry = Insert(@, pid, ProcessInfo(pid, executable_path, "", Running)),
                             !.children = Insert(@, pid, Child("none"))])

start_runtime(s, runtime_id, executable_path, args, working_dir, env) ==
    LET parts == split(runtime_id, Underscore)
    IN IF parts = <<>>
       THEN Return(Err("Invalid runtime ID"), s)
       ELSE LET runtime_type == parts[1]
            IN CASE runtime_type = Ollama -> start_ollama_runtime(s, env)
                 [] runtime_type = Localai -> start_localai_runtime(s, env)
                 [] runtime_type = Docker ->
                        IF Len(parts) >= 2
                        THEN start_docker_runtime(s, parts[2], env)
                        ELSE Return(Err("Invalid Docker runtime ID"), s)
                 [] OTHER -> start_generic_runtime(s, executable_path, args, working_dir, env)

\* stop_docker_runtime: `docker stop <container>`.
stop_docker_runtime(s, container_id, env) ==
    IF env.docker = "norun"
    THEN Return(Err("Failed to stop Docker container"), s)
    ELSE IF env.docker # "success"
         THEN Return(Err("Docker stop failed"), s)
         ELSE Return(OkUnit, s)

NotImplemented == "Stopping non-Docker runtimes not yet implemented"

\* (a stop_runtime that stops the records of a non-Docker runtime)
stop_runtime_marks(s, runtime_id, env) ==
    LET parts == split(runtime_id, Underscore)
        runtime_type == parts[1]
    IN IF runtime_type = Docker
       THEN IF Len(parts) >= 2
            THEN stop_docker_runtime(s, parts[2], env)
            ELSE Return(Err("Invalid Docker runtime ID"), s)
       ELSE Return(OkUnit,
                   [s EXCEPT !.registry = [h \in DOMAIN @ |-> [@[h] EXCEPT !.status = Stopped]]])

stop_runtime(s, runtime_id, env) ==
    LET parts == split(runtime_id, Underscore)
    IN IF parts = <<>>
       THEN Return(Err("Invalid runtime ID"), s)
       ELSE LET runtime_type == parts[1]
            IN IF runtime_type = Docker
               THEN IF Len(parts) >= 2
                    THEN stop_docker_runtime(s, parts[2], env)
                    ELSE Return(Err("Invalid Docker runtime ID"), s)
               ELSE Return(Err(NotImplemented), s)

\* (a restart_runtime that returns the stop error: `stop_runtime(..).await?`)
restart_result_propagates(stop_res, start_res) ==
    IF stop_res.ok THEN start_res ELSE stop_res

\* restart_runtime's result, given the results of its two phases: a stop
\* error is printed and dropped, the start result is returned.
restart_result(stop_res, start_res) == start_res

(***************************************************************************)
(* The runtime monitor: get_runtime_status.                                *)
(***************************************************************************)
\* What a query of the monitor meets on the host: its HTTP request gets a
\* success response ("success"), another response ("status") or no
\* connection ("refused"), the body of a response can be read or not; a
\* docker command cannot be run, fails or succeeds, and prints stdout.
\* procs are the processes of the host: name, memory in bytes, CPU percent.
Probe(http, body, docker, stdout, procs) ==
    [http |-> http, body |-> body, docker |-> docker, stdout |-> stdout, procs |-> procs]

\* Output of `docker inspect --format {{.State.Status}}`.
RunningOut == <<"r", "u", "n", "n", "i", "n", "g", NL>>
ExitedOut == <<"e", "x", "i", "t", "e", "d", NL>>

\* The answers of the HTTP server (a body only with a success response)
\* and of `docker inspect` (a state only if the command succeeds).
HttpAnswers ==
    {<<"success", None>>, <<"success", Some("0.1.0")>>, <<"status", None>>, <<"refused", None>>}

InspectAnswers ==
    {<<"success", RunningOut>>, <<"success", ExitedOut>>, <<"failed", <<>>>>, <<"norun", <<>>>>}

StatusProbes ==
    {Probe(http[1], http[2], docker[1], docker[2], <<>>) :
        http \in HttpAnswers, docker \in InspectAnswers}

IsWhitespace(c) == c \in {" ", NL, CR, "\t"}

\* str::trim_start, str::trim_end, str::trim
RECURSIVE trim_start(_)
trim_start(str) ==
    IF str # <<>> /\ IsWhitespace(Head(str)) THEN trim_start(Tail(str)) ELSE str

RECURSIVE trim_end(_)
trim_end(str) ==
    IF str # <<>> /\ IsWhitespace(str[Len(str)])
    THEN trim_end(SubSeq(str, 1, Len(str) - 1))
    ELSE str

trim(str) == trim_end(trim_start(str))

OllamaPort == 11434
LocalaiPort == 8080

\* (a check_ollama_status that takes every response for a running server)
check_ollama_status_lenient(env) ==
    IF env.http \in {"success", "status"}
    THEN OkStatus(RuntimeStatus("running", env.body, Some(OllamaPort), None))
    ELSE OkStatus(RuntimeStatus("stopped", None, Some(OllamaPort), None))

\* check_ollama_status: GET http://localhost:11434/api/version
check_ollama_status(env) ==
    CASE env.http = "success" ->
             OkStatus(RuntimeStatus("running", env.body, Some(OllamaPort), None))
      [] env.http = "status" ->
             OkStatus(RuntimeStatus("error", None, Some(OllamaPort),
                                    Some("Ollama API returned error")))
      [] OTHER ->
             OkStatus(RuntimeStatus("stopped", None, Some(OllamaPort), None))

\* check_localai_status: GET http://localhost:8080/readyz
check_localai_status(env) ==
    CASE env.http = "success" ->
             OkStatus(RuntimeStatus("running", None, Some(LocalaiPort), None))
      [] env.http = "status" ->
             OkStatus(RuntimeStatus("error", None, Some(LocalaiPort),
                                    Some("LocalAI API returned error")))
      [] OTHER ->
             OkStatus(RuntimeStatus("stopped", None, Some(LocalaiPort), None))

\* The io::Error of a command that could not be run, as a string.
OsError == "No such file or directory (os error 2)"

\* check_docker_status: `docker inspect --format {{.State.Status}} <id>`
check_docker_status(container_id, env) ==
    IF env.docker = "norun"
    THEN Err(OsError)
    ELSE IF env.docker = "success"
         THEN OkStatus(RuntimeStatus(
                  IF trim(env.stdout) = trim(RunningOut) THEN "running" ELSE "stopped",
                  None, None, None))
         ELSE Err("Failed to inspect Docker container")

UnknownRuntimeType == "Unknown runtime type: "

\* (a get_runtime_status that probes an interpreter as it probes ollama)
get_runtime_status_probing(runtime_id, env) ==
    LET parts == split(runtime_id, Underscore)
        runtime_type == parts[1]
    IN CASE runtime_type \in {Ollama, Python, Node} -> check_ollama_status(env)
         [] runtime_type = Localai -> check_localai_status(env)
         [] runtime_type = Docker ->
                IF Len(parts) >= 2
                THEN check_docker_status(parts[2], env)
                ELSE Err("Invalid Docker runtime ID")
         [] OTHER -> ErrWith(UnknownRuntimeType, runtime_type)

get_runtime_status(runtime_id, env) ==
    LET parts == split(runtime_id, Underscore)
    IN IF parts = <<>>
       THEN Err("Invalid runtime ID")
       ELSE LET runtime_type == parts[1]
            IN CASE runtime_type = Ollama -> check_ollama_status(env)
                 [] runtime_type = Localai -> check_localai_status(env)
                 [] runtime_type = Docker ->
                        IF Len(parts) >= 2
                        THEN check_docker_status(parts[2], env)
                        ELSE Err("Invalid Docker runtime ID")
                 [] runtime_type \in {Python, Node} ->
                        OkStatus(RuntimeStatus("stopped", None, None, None))
                 [] OTHER -> ErrWith(UnknownRuntimeType, runtime_type)

(***************************************************************************)
(* The runtime monitor: estimate_resource_usage.                           *)
(***************************************************************************)
Digits == <<"0", "1", "2", "3", "4", "5", "6", "7", "8", "9">>

IsDigit(c) == \E i \in DOMAIN Digits : Digits[i] = c

DigitValue(c) == (CHOOSE i \in DOMAIN Digits : Digits[i] = c) - 1

RECURSIVE DecimalValue(_, _)
DecimalValue(acc, str) ==
    IF str = <<>> THEN acc ELSE DecimalValue(10 * acc + DigitValue(Head(str)), Tail(str))

\* str::parse::<f64>().unwrap_or(0.0), on the strings the model feeds it:
\* an optional sign followed by decimal digits is that number; a string
\* that is empty, or has a character that is no digit, sign, point or
\* exponent (as "0B", "--", "x"), is not a number.
parse_f64_or_zero(str) ==
    LET signed == str # <<>> /\ Head(str) \in {"-", "+"}
        digits == IF signed THEN Tail(str) ELSE str
    IN IF digits = <<>> \/ \E i \in DOMAIN digits : ~IsDigit(digits[i])
       THEN 0
       ELSE IF signed /\ Head(str) = "-"
            THEN 0 - DecimalValue(0, digits)
            ELSE DecimalValue(0, digits)

ends_with(str, suffix) ==
    /\ Len(str) >= Len(suffix)
    /\ SubSeq(str, Len(str) - Len(suffix) + 1, Len(str)) = suffix

\* str::trim_end_matches: the suffix is removed as often as it occurs.
RECURSIVE trim_end_matches(_, _)
trim_end_matches(str, suffix) ==
    IF suffix # <<>> /\ ends_with(str, suffix)
    THEN trim_end_matches(SubSeq(str, 1, Len(str) - Len(suffix)), suffix)
    ELSE str

GiB == <<"G", "i", "B">>
MiB == <<"M", "i", "B">>
KiB == <<"K", "i", "B">>

\* parse_memory_string, in 1/1024 MB: GiB are value * 1024 MB, MiB are
\* value MB, KiB are value / 1024 MB, anything else is 0.
parse_memory_string(mem_str) ==
    LET m == trim(mem_str)
    IN CASE ends_with(m, GiB) -> parse_f64_or_zero(trim_end_matches(m, GiB)) * 1024 * 1024
         [] ends_with(m, MiB) -> parse_f64_or_zero(trim_end_matches(m, MiB)) * 1024
         [] ends_with(m, KiB) -> parse_f64_or_zero(trim_end_matches(m, KiB))
         [] OTHER -> 0

\* estimate_docker_usage:
\* `docker stats --no-stream --format {{.MemUsage}}|{{.CPUPerc}} <id>`
estimate_docker_usage(container_id, env) ==
    IF env.docker = "norun"
    THEN Err(OsError)
    ELSE IF env.docker # "success"
         THEN Err("Failed to get Docker stats")
         ELSE LET parts == split(trim(env.stdout), "|")
              IN IF Len(parts) >= 2
                 THEN LET memory_str == trim(split(parts[1], "/")[1])
                          memory_mb == parse_memory_string(memory_str)
                          cpu_str == trim_end_matches(trim(parts[2]), <<"%">>)
                          cpu_percent == parse_f64_or_zero(cpu_str)
                      IN OkUsage(ResourceUsage(memory_mb, None, cpu_percent))
                 ELSE Err("Failed to parse Docker stats")

\* char::to_lowercase, for the letters of the process names of the model.
LowerOf(c) ==
    CASE c = "O" -> "o"
      [] c = "L" -> "l"
      [] c = "A" -> "a"
      [] c = "M" -> "m"
      [] OTHER -> c

to_lowercase(str) == [i \in DOMAIN str |-> LowerOf(str[i])]

\* str::contains
contains(str, pat) ==
    \E i \in 1..(Len(str) + 1) :
        i + Len(pat) - 1 <= Len(str) /\ SubSeq(str, i, i + Len(pat) - 1) = pat

\* The for loop of estimate_process_usage: memory and CPU of the processes
\* whose name contains the given one, summed.
RECURSIVE SumProcesses(_, _, _)
SumProcesses(procs, process_name, total) ==
    IF procs = <<>>
    THEN total
    ELSE LET process == Head(procs)
             hit == contains(to_lowercase(process.name), to_lowercase(process_name))
         IN SumProcesses(Tail(procs), process_name,
                         IF hit
                         THEN [memory |-> total.memory + process.memory,
                               cpu |-> total.cpu + process.cpu]
                         ELSE total)

\* estimate_process_usage: bytes / 1024 / 1024 are MB.
estimate_process_usage(process_name, env) ==
    LET total == SumProcesses(env.procs, process_name, [memory |-> 0, cpu |-> 0])
    IN OkUsage(ResourceUsage(total.memory \div 1024, None, total.cpu))

LocalAiName == <<"l", "o", "c", "a", "l", "-", "a", "i">>

estimate_resource_usage(runtime_id, env) ==
    LET parts == split(runtime_id, Underscore)
    IN IF parts = <<>>
       THEN Err("Invalid runtime ID")
       ELSE LET runtime_type == parts[1]
            IN CASE runtime_type = Ollama -> estimate_process_usage(Ollama, env)
                 [] runtime_type = Localai -> estimate_process_usage(LocalAiName, env)
                 [] runtime_type = Docker ->
                        IF Len(parts) >= 2
                        THEN estimate_docker_usage(parts[2], env)
                        ELSE Err("Invalid Docker runtime ID")
                 [] OTHER -> OkUsage(ResourceUsage(0, None, 0))

\* What `docker stats` prints in the given format: memory usage, " / ",
\* the memory limit, "|", the CPU percentage.
StatsLine(usage, limit, cpu) ==
    usage \o <<" ", "/", " ">> \o limit \o <<"|">> \o cpu \o <<NL>>

\* Outputs of `docker stats`: lines with a memory usage in each unit, with
\* "0B", with a negative number, and no line at all.
StatsOutputs ==
    {StatsLine(usage, <<"2">> \o GiB, <<"5", "%">>) :
        usage \in {<<"1">> \o MiB, <<"1">> \o GiB, <<"2">> \o KiB, <<"0", "B">>}}
    \cup {StatsLine(<<"-", "1">> \o MiB, <<"2">> \o GiB, <<"-", "5", "%">>), <<>>}

Process(name, memory, cpu) == [name |-> name, memory |-> memory, cpu |-> cpu]

\* The processes of the host: none, an ollama server, or a server whose
\* name is in upper case together with a local-ai server.
ProcessLists ==
    {<<>>,
     <<Process(Ollama, 2048, 5)>>,
     <<Process(<<"O", "L", "L", "A", "M", "A">>, 1024, 1), Process(LocalAiName, 4096, 2)>>}

\* A docker command that cannot be run or fails prints nothing.
UsageProbes ==
    {Probe("refused", None, "success", stdout, procs) :
        stdout \in StatsOutputs, procs \in ProcessLists}
    \cup {Probe("refused", None, docker, <<>>, procs) :
        docker \in {"norun", "failed"}, procs \in ProcessLists}

\* Whether the host has what the identifier names: a process of that
\* server, or a container docker answers for.
HostHasRuntime(runtime_id, env) ==
    LET runtime_type == split(runtime_id, Underscore)[1]
        named(name) == \E i \in DOMAIN env.procs :
                          contains(to_lowercase(env.procs[i].name), name)
    IN CASE runtime_type = Ollama -> named(Ollama)
         [] runtime_type = Localai -> named(LocalAiName)
         [] runtime_type = Docker -> env.docker = "success"
         [] OTHER -> FALSE

(***************************************************************************)
(* The runtime monitor: scan_runtimes.                                     *)
(***************************************************************************)
DetectedRuntime(id, name, runtime_type, executable_path, version) ==
    [id |-> id, name |-> name, runtime_type |-> runtime_type,
     executable_path |-> executable_path, version |-> version, auto_detected |-> TRUE]

RuntimeDetector(name, runtime_type, executables) ==
    [name |-> name, runtime_type |-> runtime_type, executables |-> executables]

RUNTIME_DETECTORS ==
    <<RuntimeDetector(<<"Ollama">>, Ollama, <<Ollama>>),
      RuntimeDetector(<<"LocalAI">>, Localai, <<LocalAiName, Localai>>),
      RuntimeDetector(<<"Python">>, Python, <<Python \o <<"3">>, Python>>),
      RuntimeDetector(<<"Node.js">>, Node, <<Node>>),
      RuntimeDetector(<<"Docker">>, Docker, <<Docker>>)>>

\* The executables the detectors look for.
Executables ==
    UNION {Range(RUNTIME_DETECTORS[i].executables) : i \in DOMAIN RUNTIME_DETECTORS}

\* The host of a scan: the executables on the search path, those of them
\* that print a version line, the outcome of `docker ps` and its output.
ScanHost(found, version, docker, stdout) ==
    [found |-> found, version |-> version, docker |-> docker, stdout |-> stdout]

\* find_executable: `which <name>` prints the path; its first line,
\* trimmed, is the path unless it is empty.
find_executable(name, env) ==
    IF name \notin env.found
    THEN None
    ELSE LET stdout == <<"/usr/bin/">> \o name \o <<NL>>
             ls == lines(stdout)
         IN IF ls = <<>> \/ trim(ls[1]) = <<>> THEN None ELSE Some(trim(ls[1]))

\* get_version: the first line the executable prints, if it prints one.
get_version(executable, env) ==
    IF executable \in env.version THEN Some(<<"v1">>) ELSE None

\* detect_runtime: the first executable of the detector that is found.
RECURSIVE DetectFrom(_, _, _)
DetectFrom(detector, executables, env) ==
    IF executables = <<>>
    THEN None
    ELSE LET executable == Head(executables)
             path == find_executable(executable, env)
         IN IF path # None
            THEN Some(DetectedRuntime(detector.runtime_type \o <<Underscore>> \o executable,
                                      detector.name, detector.runtime_type, path[1],
                                      get_version(executable, env)))
            ELSE DetectFrom(detector, Tail(executables), env)

detect_runtime(detector, env) == DetectFrom(detector, detector.executables, env)

AiImages ==
    {Ollama, Localai,
     <<"t", "e", "x", "t", "-", "g", "e", "n", "e", "r", "a", "t", "i", "o", "n">>,
     <<"s", "t", "a", "b", "l", "e", "-", "d", "i", "f", "f", "u", "s", "i", "o", "n">>}

is_ai_container(image) == \E ai \in AiImages : contains(to_lowercase(image), ai)

\* (a runtime of a container that is identified by its image)
ContainerRuntimeByImage(container_id, image, name) ==
    DetectedRuntime(Docker \o <<Underscore>> \o image, <<"Docker: ">> \o name, Docker,
                    <<"docker:">> \o container_id, Some(image))

\* The DetectedRuntime pushed for a line of `docker ps`.
ContainerRuntime(container_id, image, name) ==
    DetectedRuntime(Docker \o <<Underscore>> \o container_id, <<"Docker: ">> \o name, Docker,
                    <<"docker:">> \o container_id, Some(image))

\* The for loop of scan_docker_containers over the lines of the output.
RECURSIVE ContainerRuntimes(_)
ContainerRuntimes(ls) ==
    IF ls = <<>>
    THEN <<>>
    ELSE LET parts == split(Head(ls), "|")
         IN (IF Len(parts) >= 3 /\ is_ai_container(parts[2])
             THEN <<ContainerRuntime(parts[1], parts[2], parts[3])>>
             ELSE <<>>)
            \o ContainerRuntimes(Tail(ls))

\* scan_docker_containers: `docker ps --format {{.ID}}|{{.Image}}|{{.Names}}`
scan_docker_containers(env) ==
    IF env.docker = "norun"
    THEN Err(OsError)
    ELSE IF env.docker # "success"
         THEN OkRuntimes(<<>>)
         ELSE OkRuntimes(ContainerRuntimes(lines(env.stdout)))

\* The for loop of scan_runtimes over the detectors.
RECURSIVE DetectAll(_, _)
DetectAll(detectors, env) ==
    IF detectors = <<>>
    THEN <<>>
    ELSE detect_runtime(Head(detectors), env) \o DetectAll(Tail(detectors), env)

scan_runtimes(env) ==
    LET runtimes == DetectAll(RUNTIME_DETECTORS, env)
        docker_runtimes == scan_docker_containers(env)
    IN OkRuntimes(runtimes \o (IF docker_runtimes.ok THEN docker_runtimes.runtimes ELSE <<>>))

\* A container as docker lists it: id, image, name.
Container(id, image, name) == [id |-> id, image |-> image, name |-> name]

\* The containers of the host, each with an id of its own: two of an
\* ollama image (one spelt with capitals) and a web server.
Containers ==
    <<Container(<<"a", "1">>, <<"O", "L", "L", "A", "M", "A">>, <<"m">>),
      Container(<<"b", "2">>, <<"n", "g", "i", "n", "x">>, <<"w">>),
      Container(<<"c", "3">>, <<"O", "L", "L", "A", "M", "A">>, <<"n">>)>>

\* What `docker ps` prints for the running ones among the containers.
RECURSIVE PsOutput(_, _)
PsOutput(containers, running) ==
    IF containers = <<>>
    THEN <<>>
    ELSE LET c == Head(containers)
         IN (IF c.id \in running
             THEN c.id \o <<"|">> \o c.image \o <<"|">> \o c.name \o <<NL>>
             ELSE <<>>)
            \o PsOutput(Tail(containers), running)

\* Every executable but node prints a version line.
Versioned == Executables \ {Node}

ScanHosts ==
    {ScanHost(found, Versioned, "success", PsOutput(Containers, running)) :
        found \in SUBSET Executables,
        running \in SUBSET {Containers[i].id : i \in DOMAIN Containers}}
    \cup {ScanHost(found, Versioned, docker, <<>>) :
        found \in SUBSET Executables,
        docker \in {"norun", "failed"}}

(***************************************************************************)
(* The calls as steps.                                                     *)
(***************************************************************************)
\* The record of the call that has just returned (phases: the stop and
\* start results of a restart_runtime call).
\* For a query of the monitor, probe is what its HTTP request met.
CallWith(op, pid, id, res, phases, probe) ==
    [op |-> op, pid |-> pid, id |-> id, res |-> res, phases |-> phases, probe |-> probe]

NoProbe == "-"

CallOf(op, pid, id, res, phases) == CallWith(op, pid, id, res, phases, NoProbe)

Call(op, pid, id, res) == CallOf(op, pid, id, res, <<>>)

\* No call has just returned (a step of the host).
NoCall == Call("-", NoPid, NoId, Err(""))

\* A call that runs from its entry to its return in one step: no other
\* call is in flight.
Becomes(s) ==
    /\ registry' = s.registry
    /\ output' = s.output
    /\ children' = s.children
    /\ UNCHANGED <<tasks, locks>>

SpawnCliProcess ==
    \E tool_id \in ToolIds, working_dir \in WorkingDirs, nanos \in 0..MaxNanos :
        LET r == spawn_cli_process(Now, tool_id, working_dir, nanos)
        IN /\ Becomes(r.s)
           /\ last' = Call("spawn_cli_process", r.res.handle, NoId, r.res)

SendToProcess ==
    \E pid \in Handles, input \in Inputs :
        LET r == send_to_process(Now, pid, input)
        IN /\ \A h \in DOMAIN r.s.output : Len(r.s.output[h]) <= MaxBuf
           /\ Becomes(r.s)
           /\ last' = Call("send_to_process", pid, NoId, r.res)

KillProcess ==
    \E pid \in Handles :
        LET r == kill_process(Now, pid)
        IN /\ Becomes(r.s)
           /\ last' = Call("kill_process", pid, NoId, r.res)

GetProcessOutput ==
    \E pid \in Handles :
        LET r == get_process_output(Now, pid)
        IN /\ Becomes(r.s)
           /\ last' = Call("get_process_output", pid, NoId, r.res)

StreamProcessOutput ==
    \E pid \in Handles :
        LET r == stream_process_output(Now, pid)
        IN /\ Becomes(r.s)
           /\ last' = Call("stream_process_output", pid, NoId, r.res)

StartRuntimeOf(ids, paths) ==
    \E runtime_id \in ids, executable_path \in paths :
      \E env \in Envs(Now, runtime_id) :
        LET r == start_runtime(Now, runtime_id, executable_path, NoArgs, NoDir, env)
        IN /\ Becomes(r.s)
           /\ last' = Call("start_runtime", r.res.handle, runtime_id, r.res)

StartRuntime == StartRuntimeOf(RuntimeIds, ExecutablePaths)

StopRuntimeOf(ids) ==
    \E runtime_id \in ids :
      \E env \in Envs(Now, runtime_id) :
        LET r == stop_runtime(Now, runtime_id, env)
        IN /\ Becomes(r.s)
           /\ last' = Call("stop_runtime", NoPid, runtime_id, r.res)

StopRuntime == StopRuntimeOf(RuntimeIds)

\* start_runtime and stop_runtime on any identifier.
StartAnyRuntime == StartRuntimeOf(AnyRuntimeIds, InterpreterPaths)

StopAnyRuntime == StopRuntimeOf(AnyRuntimeIds)

\* restart_runtime: stop_runtime is awaited and its error, if any, printed;
\* after the sleep start_runtime is awaited with an empty path, no
\* arguments and no directory.
RestartRuntime ==
    \E runtime_id \in RuntimeIds :
      \E stop_env \in Envs(Now, runtime_id) :
        LET stopped == stop_runtime(Now, runtime_id, stop_env)
        IN \E start_env \in Envs(stopped.s, runtime_id) :
            LET started == start_runtime(stopped.s, runtime_id, EmptyPath, NoArgs, NoDir, start_env)
                res == restart_result(stopped.res, started.res)
            IN /\ Becomes(started.s)
               /\ last' = CallOf("restart_runtime", res.handle, runtime_id, res,
                                 <<stopped.res, started.res>>)

\* What the host answers to a status query on the identifier: for docker
\* the outcome of `docker inspect` ("norun", "failed", or the state it
\* prints: "running", "exited"), otherwise that of the HTTP request.
StatusSeen(runtime_id, env) ==
    IF split(runtime_id, Underscore)[1] # Docker
    THEN env.http
    ELSE IF env.docker # "success"
         THEN env.docker
         ELSE IF env.stdout = RunningOut THEN "running" ELSE "exited"

\* (a get_runtime_status that marks the records of the registry Stopped
\* when the server does not answer)
GetRuntimeStatusMarking ==
    \E runtime_id \in AnyRuntimeIds, env \in StatusProbes :
        LET res == get_runtime_status(runtime_id, env)
        IN /\ last' = CallWith("get_runtime_status", NoPid, runtime_id, res, <<>>,
                               StatusSeen(runtime_id, env))
           /\ registry' = IF res.ok /\ res.status.status = "stopped"
                          THEN [h \in DOMAIN registry |->
                                   [registry[h] EXCEPT !.status = Stopped]]
                          ELSE registry
           /\ UNCHANGED <<output, children, tasks, locks>>

\* get_runtime_status: the registry is not consulted.
GetRuntimeStatus ==
    \E runtime_id \in AnyRuntimeIds, env \in StatusProbes :
        LET res == get_runtime_status(runtime_id, env)
        IN /\ last' = CallWith("get_runtime_status", NoPid, runtime_id, res, <<>>,
                               StatusSeen(runtime_id, env))
           /\ UNCHANGED <<registry, output, children, tasks, locks>>

\* estimate_resource_usage; the call record tells whether the host has the
\* runtime ("present") or not ("absent").
EstimateResourceUsage ==
    \E runtime_id \in AnyRuntimeIds, env \in UsageProbes :
        LET res == estimate_resource_usage(runtime_id, env)
        IN /\ last' = CallWith("estimate_resource_usage", NoPid, runtime_id, res, <<>>,
                               IF HostHasRuntime(runtime_id, env) THEN "present" ELSE "absent")
           /\ UNCHANGED <<registry, output, children, tasks, locks>>

ScanRuntimes ==
    \E env \in ScanHosts :
        /\ last' = Call("scan_runtimes", NoPid, NoId, scan_runtimes(env))
        /\ UNCHANGED <<registry, output, children, tasks, locks>>

\* A live child writes a line to its standard output.
ChildWrite ==
    \E pid \in DOMAIN children, line \in OutLines :
        /\ children[pid].alive
        /\ Len(children[pid].written) < MaxLines
        /\ children' = [children EXCEPT ![pid].pipe = Append(@, line),
                                        ![pid].written = Append(@, line)]
        /\ last' = NoCall
        /\ UNCHANGED <<registry, output, tasks, locks>>

\* A child exits: its standard output is closed.
ChildExit ==
    \E pid \in DOMAIN children :
        /\ children[pid].alive
        /\ children' = [children EXCEPT ![pid].alive = FALSE]
        /\ last' = NoCall
        /\ UNCHANGED <<registry, output, tasks, locks>>

\* (a reader thread that waits for more lines at the end of the stream)
ReaderStepBlocking ==
    \E pid \in DOMAIN children :
        /\ children[pid].reader = "running"
        /\ children[pid].pipe # <<>>
        /\ children' = [children EXCEPT
                            ![pid].captured = @ \o <<Head(children[pid].pipe), NL>>,
                            ![pid].pipe = Tail(@)]
        /\ last' = NoCall
        /\ UNCHANGED <<registry, output, tasks, locks>>

\* The reader thread of a child: the next line of the pipe is pushed, with
\* a newline, onto the thread's buffer; at the end of the stream it stops.
ReaderStep ==
    \E pid \in DOMAIN children :
        /\ children[pid].reader = "running"
        /\ IF children[pid].pipe # <<>>
           THEN children' = [children EXCEPT
                                ![pid].captured = @ \o <<Head(children[pid].pipe), NL>>,
                                ![pid].pipe = Tail(@)]
           ELSE /\ ~children[pid].alive
                /\ children' = [children EXCEPT ![pid].reader = "done"]
        /\ last' = NoCall
        /\ UNCHANGED <<registry, output, tasks, locks>>

\* start_runtime while no reader thread still runs on the stream of an
\* exited child: the child was not waited for, and its process id is not
\* given out again.
StartRuntimeBesideReaders ==
    /\ \A pid \in DOMAIN children : children[pid].reader = "running" => children[pid].alive
    /\ StartRuntime

\* The tasks that run calls concurrently.
TaskIds == {"t1", "t2"}

\* The owner of a mutex that is not locked.
NoTask == "-"

FreeLocks == [registry |-> NoTask, output |-> NoTask]

NoInfo == ProcessInfo(NoPid, "", "", "-")

\* A call in flight: where it is (pc), the command and its arguments, the
\* record it is about to insert, its result once it has returned ("done"),
\* and for restart_runtime the steps it has taken.
Task(pc, op, pid, id, input, path, info, res, log) ==
    [pc |-> pc, op |-> op, pid |-> pid, id |-> id, input |-> input, path |-> path,
     info |-> info, res |-> res, log |-> log]

IdleTask == Task("idle", "-", NoPid, NoId, <<>>, EmptyPath, NoInfo, Err(""), <<>>)

\* (a spawn_cli_process that locks the output map before the registry)
LockOrder_reversed(op) ==
    CASE op = "spawn_cli_process" -> <<"output", "registry">>
      [] op = "send_to_process" -> <<"registry", "output">>
      [] op \in {"kill_process", "start_runtime", "restart_runtime"} -> <<"registry">>
      [] OTHER -> <<"output">>

\* The mutexes a command locks, in the order it locks them; a guard is
\* dropped when the command returns.
LockOrder(op) ==
    CASE op \in {"spawn_cli_process", "send_to_process"} -> <<"registry", "output">>
      [] op \in {"kill_process", "start_runtime", "restart_runtime"} -> <<"registry">>
      [] OTHER -> <<"output">>

\* What a command does once it has locked a mutex: its result so far, the
\* maps after the step, and whether it returns at once.
Step(res, s, returns) == [res |-> res, s |-> s, returns |-> returns]

Effect(task, lock) ==
    CASE task.op = "spawn_cli_process" ->
            IF lock = "registry"
            THEN Step(OkHandle(task.pid),
                      [Now EXCEPT !.registry = Insert(@, task.pid, task.info)], FALSE)
            ELSE Step(OkHandle(task.pid),
                      [Now EXCEPT !.output = Insert(@, task.pid, <<>>)], FALSE)
      [] task.op = "send_to_process" ->
            LET r == send_to_process(Now, task.pid, task.input)
            IN IF lock = "registry" THEN Step(r.res, Now, ~r.res.ok)
                                    ELSE Step(r.res, r.s, FALSE)
      [] task.op = "kill_process" ->
            LET r == kill_process(Now, task.pid) IN Step(r.res, r.s, FALSE)
      [] task.op = "get_process_output" ->
            LET r == get_process_output(Now, task.pid) IN Step(r.res, r.s, FALSE)
      [] task.op = "stream_process_output" ->
            LET r == stream_process_output(Now, task.pid) IN Step(r.res, r.s, FALSE)
      [] OTHER ->
            Step(task.res, [Now EXCEPT !.registry = Insert(@, task.pid, task.info)], FALSE)

\* (a restart_runtime that sleeps before it stops the runtime)
restart_runtime_hasty == <<"sleep", "stop", "command">>

\* restart_runtime: the steps of its body, each awaited before the next.
restart_runtime_plan == <<"stop", "sleep", "command">>

NextPhase(plan, pc) ==
    LET i == CHOOSE j \in 1..Len(plan) : plan[j] = pc
    IN plan[i + 1]

\* A step restart_runtime has taken: the call it made and its arguments.
Event(ev, id, path, args, dir) ==
    [ev |-> ev, id |-> id, path |-> path, args |-> args, dir |-> dir]

\* Identifiers of the calls that run concurrently.
TaskRuntimeIds == {OllamaId, DockerAbId}

\* A task calls a command: the call stands before its first lock or its
\* external command.
TaskCall(t) ==
    /\ tasks[t].pc = "idle"
    /\ \/ \E tool_id \in ToolIds, working_dir \in WorkingDirs, nanos \in 0..MaxNanos :
            LET pid == generate_pid(nanos)
            IN tasks' = [tasks EXCEPT ![t] =
                   Task("lock1", "spawn_cli_process", pid, NoId, <<>>, EmptyPath,
                        ProcessInfo(pid, tool_id, working_dir, Running), Err(""), <<>>)]
       \/ \E pid \in Handles, input \in Inputs :
            tasks' = [tasks EXCEPT ![t] =
                   Task("lock1", "send_to_process", pid, NoId, input, EmptyPath,
                        NoInfo, Err(""), <<>>)]
       \/ \E pid \in Handles,
             op \in {"kill_process", "get_process_output", "stream_process_output"} :
            tasks' = [tasks EXCEPT ![t] =
                   Task("lock1", op, pid, NoId, <<>>, EmptyPath, NoInfo, Err(""), <<>>)]
       \/ \E runtime_id \in TaskRuntimeIds, executable_path \in ExecutablePaths :
            tasks' = [tasks EXCEPT ![t] =
                   Task("command", "start_runtime", NoPid, runtime_id, <<>>,
                        executable_path, NoInfo, Err(""), <<>>)]
       \/ \E runtime_id \in TaskRuntimeIds :
            tasks' = [tasks EXCEPT ![t] =
                   Task(restart_runtime_plan[1], "restart_runtime", NoPid, runtime_id, <<>>,
                        EmptyPath, NoInfo, Err(""), <<>>)]
    /\ UNCHANGED <<registry, output, children, last, locks>>

\* The locks after the task has returned: its guards are dropped.
Released(t) == [l \in DOMAIN locks |-> IF locks[l] = t THEN NoTask ELSE locks[l]]

\* The external command of a call completes: the stop attempt of
\* restart_runtime, or the spawn or `docker start` of start_runtime.  A
\* spawned child exists from here on; its record is inserted under the
\* registry lock in a later step.
TaskCommand(t) ==
    LET task == tasks[t]
    IN /\ task.pc \in {"stop", "command"}
       /\ \E env \in Envs(Now, task.id) :
            IF task.pc = "stop"
            THEN LET r == stop_runtime(Now, task.id, env)
                 IN /\ tasks' = [tasks EXCEPT ![t] =
                           [task EXCEPT !.pc = NextPhase(restart_runtime_plan, "stop"),
                                        !.res = r.res,
                                        !.log = Append(@, Event("stop_runtime", task.id,
                                                                EmptyPath, NoArgs, NoDir))]]
                    /\ UNCHANGED <<registry, output, children, last, locks>>
            ELSE LET r == start_runtime(Now, task.id, task.path, NoArgs, NoDir, env)
                     res == IF task.op = "restart_runtime"
                            THEN restart_result(task.res, r.res) ELSE r.res
                     log == Append(task.log, Event("start_runtime", task.id, task.path,
                                                   NoArgs, NoDir))
                 IN IF env.spawn /\ r.res.ok
                    THEN /\ children' = r.s.children
                         /\ tasks' = [tasks EXCEPT ![t] =
                                [task EXCEPT !.pc = "lock1", !.pid = r.res.handle,
                                             !.info = r.s.registry[r.res.handle],
                                             !.res = res, !.log = log]]
                         /\ UNCHANGED <<registry, output, last, locks>>
                    ELSE /\ tasks' = [tasks EXCEPT ![t] =
                                [task EXCEPT !.pc = "done", !.pid = r.res.handle,
                                             !.res = res, !.log = log]]
                         /\ last' = Call(task.op, res.handle, task.id, res)
                         /\ UNCHANGED <<registry, output, children, locks>>

\* The settling delay of restart_runtime elapses.
TaskSleep(t) ==
    /\ tasks[t].pc = "sleep"
    /\ tasks' = [tasks EXCEPT ![t].pc = NextPhase(restart_runtime_plan, "sleep"),
                              ![t].log = Append(@, Event("sleep", tasks[t].id, EmptyPath,
                                                         NoArgs, NoDir))]
    /\ UNCHANGED <<registry, output, children, last, locks>>

\* A call locks its next mutex, which must be free, and works on the map.
\* It keeps the guard while it goes on to its next lock; when it returns,
\* every guard it holds is dropped.
TaskLock(t) ==
    LET task == tasks[t]
        order == LockOrder(task.op)
        k == IF task.pc = "lock1" THEN 1 ELSE Len(order)
        lock == order[k]
        e == Effect(task, lock)
    IN /\ task.pc \in {"lock1", "lock2"}
       /\ locks[lock] = NoTask
       /\ registry' = e.s.registry
       /\ output' = e.s.output
       /\ UNCHANGED children
       /\ IF e.returns \/ k = Len(order)
          THEN /\ locks' = Released(t)
               /\ tasks' = [tasks EXCEPT ![t].pc = "done", ![t].res = e.res]
               /\ last' = Call(task.op, task.pid, task.id, e.res)
          ELSE /\ locks' = [locks EXCEPT ![lock] = t]
               /\ tasks' = [tasks EXCEPT ![t].pc = "lock2", ![t].res = e.res]
               /\ UNCHANGED last

Invoke == \E t \in TaskIds : TaskCall(t)
Command == \E t \in TaskIds : TaskCommand(t)
Sleep == \E t \in TaskIds : TaskSleep(t)
Lock == \E t \in TaskIds : TaskLock(t)

Init ==
    /\ registry = EmptyMap
    /\ output = EmptyMap
    /\ children = EmptyMap
    /\ last = NoCall
    /\ tasks = [t \in TaskIds |-> IdleTask]
    /\ locks = FreeLocks

\* The registry and the output map under the calls that read or write
\* them, with the children of start_runtime exiting.
Next ==
    \/ SpawnCliProcess
    \/ SendToProcess
    \/ KillProcess
    \/ GetProcessOutput
    \/ StreamProcessOutput
    \/ StartRuntime
    \/ ChildExit

Spec == Init /\ [][Next]_vars

\* The lifecycle dispatcher: start, stop and restart of runtimes, with
\* kill_process on the handles they return.
NextRuntime ==
    \/ StartRuntime
    \/ StopRuntime
    \/ RestartRuntime
    \/ KillProcess
    \/ ChildExit

SpecRuntime == Init /\ [][NextRuntime]_vars

\* Output capture: the runtimes that are started, their children writing
\* and exiting, the reader threads, and the queries of the captured text.
NextCapture ==
    \/ StartRuntime
    \/ ChildWrite
    \/ ChildExit
    \/ ReaderStep
    \/ GetProcessOutput
    \/ StreamProcessOutput

SpecCapture == Init /\ [][NextCapture]_vars

\* Output capture with a scheduler that is fair to the reader threads: a
\* reader that can take a step does not wait forever.
NextCaptureFair ==
    \/ StartRuntimeBesideReaders
    \/ ChildWrite
    \/ ChildExit
    \/ ReaderStep
    \/ GetProcessOutput
    \/ StreamProcessOutput

SpecCaptureFair == Init /\ [][NextCaptureFair]_vars /\ WF_vars(ReaderStep)

\* The dispatchers on any identifier: start_runtime and stop_runtime, and
\* the queries of the monitor, with kill_process on the started handles.
NextMonitor ==
    \/ StartAnyRuntime
    \/ StopAnyRuntime
    \/ GetRuntimeStatus
    \/ EstimateResourceUsage
    \/ KillProcess
    \/ ChildExit

SpecMonitor == Init /\ [][NextMonitor]_vars

\* The scanner on every host.
NextScan == ScanRuntimes

SpecScan == Init /\ [][NextScan]_vars

\* A tracked process as spawn_cli_process leaves it.
Warm == spawn_cli_process(State(EmptyMap, EmptyMap, EmptyMap), "tool1", "/tmp", 0)

\* Concurrent calls: they start on empty maps or on one tracked process.
InitTasks ==
    /\ \E s \in {State(EmptyMap, EmptyMap, EmptyMap), Warm.s} :
        /\ registry = s.registry
        /\ output = s.output
        /\ children = s.children
    /\ last = NoCall
    /\ tasks = [t \in TaskIds |-> IdleTask]
    /\ locks = FreeLocks

NextTasks ==
    \/ Invoke
    \/ Command
    \/ Sleep
    \/ Lock

\* Every task makes one call.  The scheduler is fair to a call in flight:
\* a call that can take its next step does not wait forever.
SpecTasks ==
    /\ InitTasks
    /\ [][NextTasks]_vars
    /\ \A t \in TaskIds :
        WF_vars(TaskCommand(t)) /\ WF_vars(TaskSleep(t)) /\ WF_vars(TaskLock(t))

(***************************************************************************)
(* Properties.                                                             *)
(***************************************************************************)
TypeTag(runtime_id) == split(runtime_id, Underscore)[1]

\* C1: for a handle that is not a key of the registry, send_to_process,
\* kill_process and get_process_output return a not-found error and leave
\* the registry and the output map as they were.
C1_AbsentHandleNotFound ==
    [][(/\ last'.op \in {"send_to_process", "kill_process", "get_process_output"}
        /\ last'.pid \notin DOMAIN registry)
       => (/\ ~last'.res.ok
           /\ last'.res.err = (IF last'.op = "get_process_output"
                               THEN ProcessOutputNotFound ELSE ProcessNotFound)
           /\ registry' = registry
           /\ output' = output)]_vars

\* A send to an unregistered handle has failed while another handle is
\* registered and has a buffer.
C1_Witness ==
    /\ last.op = "send_to_process"
    /\ last.pid \notin DOMAIN registry
    /\ ~last.res.ok
    /\ DOMAIN output # {}

\* C2: the handle returned by a successful spawn_cli_process, or by a
\* successful start_runtime on a local-executable backend, is registered
\* with status Running right after the call; right after a successful
\* kill_process the handle is registered with status Stopped.
C2_RunningThenStopped ==
    /\ (/\ last.op \in {"spawn_cli_process", "start_runtime"}
        /\ last.res.ok
        /\ (last.op = "start_runtime" => TypeTag(last.id) # Docker))
       => (/\ last.res.handle \in DOMAIN registry
           /\ registry[last.res.handle].status = Running)
    /\ (last.op = "kill_process" /\ last.res.ok)
       => (/\ last.pid \in DOMAIN registry
           /\ registry[last.pid].status = Stopped)

\* The handle of a started ollama runtime has been killed.
C2_Witness ==
    /\ last.op = "kill_process"
    /\ last.res.ok
    /\ last.pid \in DOMAIN registry
    /\ registry[last.pid].tool_id = "ollama"
    /\ registry[last.pid].status = Stopped

\* C3: send_to_process changes the buffer of no handle but its own, and
\* adds or removes no buffer.
C3_OutputIsolated ==
    [][last'.op = "send_to_process"
       => (/\ DOMAIN output' = DOMAIN output
           /\ \A h \in DOMAIN output \ {last'.pid} : output'[h] = output[h])]_vars

\* Two spawned handles hold different texts, the last one just sent.
C3_Witness ==
    /\ last.op = "send_to_process"
    /\ last.res.ok
    /\ last.pid \in DOMAIN output
    /\ \E h \in DOMAIN output \ {last.pid} :
          /\ output[h] # <<>>
          /\ Range(output[h]) \cap Range(output[last.pid]) = {"Input: ", NL}

\* C4: the result of restart_runtime is the result of its start phase,
\* whatever its stop phase returned.
C4_RestartReturnsStartResult ==
    last.op = "restart_runtime"
    => (/\ Len(last.phases) = 2
        /\ last.res = last.phases[2])

\* A restart whose stop phase failed has returned a handle.
C4_Witness ==
    /\ last.op = "restart_runtime"
    /\ ~last.phases[1].ok
    /\ last.res.ok

\* C5: stop_runtime on an identifier whose type tag is not docker returns
\* the "not yet implemented" error and changes neither map.
C5_StopNotImplemented ==
    [][(last'.op = "stop_runtime" /\ TypeTag(last'.id) # Docker)
       => (/\ last'.res = Err(NotImplemented)
           /\ registry' = registry
           /\ output' = output)]_vars

\* stop_runtime has failed on ollama while a record of ollama is Running.
C5_Witness ==
    /\ last.op = "stop_runtime"
    /\ last.id = OllamaId
    /\ ~last.res.ok
    /\ \E h \in DOMAIN registry :
          registry[h].tool_id = "ollama" /\ registry[h].status = Running

\* The number of "\n" in a text.
RECURSIVE CountNL(_)
CountNL(text) ==
    IF text = <<>> THEN 0
    ELSE (IF Head(text) = NL THEN 1 ELSE 0) + CountNL(Tail(text))

\* C6: for a handle without a buffer stream_process_output returns an empty
\* list and get_process_output a not-found error; for a handle with a
\* buffer get_process_output returns its text and stream_process_output the
\* lines of that text, in order.
C6_StreamVersusGet ==
    /\ last.op = "stream_process_output"
       => IF last.pid \in DOMAIN output
          THEN /\ last.res = OkList(lines(output[last.pid]))
               /\ \A i \in DOMAIN last.res.list : NL \notin Range(last.res.list[i])
               /\ Len(last.res.list) = CountNL(output[last.pid])
          ELSE last.res = OkList(<<>>)
    /\ last.op = "get_process_output"
       => IF last.pid \in DOMAIN output
          THEN last.res = OkText(output[last.pid])
          ELSE last.res = Err(ProcessOutputNotFound)

\* Two lines have been streamed from a buffer.
C6_Witness ==
    /\ last.op = "stream_process_output"
    /\ last.pid \in DOMAIN output
    /\ Len(last.res.list) = 2
\* C7: a handle of a locally spawned process is a key of the registry
\* exactly if it is a key of the output map (every record of the registry
\* is one of a locally spawned process).
C7_SameKeys ==
    \A h \in Handles : h \in DOMAIN registry <=> h \in DOMAIN output

\* C8: a send_to_process that returns ok has appended its record to the
\* buffer of the handle.
C8_SendNeverSilent ==
    [][(last'.op = "send_to_process" /\ last'.res.ok)
       => (/\ last'.pid \in DOMAIN output
           /\ last'.pid \in DOMAIN output'
           /\ \E input \in Inputs :
                 output'[last'.pid] = output[last'.pid] \o InputRecord(input))]_vars

\* The lines, each followed by a newline, as one text.
RECURSIVE Unlines(_)
Unlines(ls) ==
    IF ls = <<>> THEN <<>> ELSE <<Head(ls), NL>> \o Unlines(Tail(ls))

\* C9: once the reader of a started runtime has taken every line its child
\* has written, get_process_output on the handle returns those lines.
C9_CapturedOutputRetrievable ==
    (/\ last.op = "get_process_output"
     /\ last.pid \in DOMAIN children
     /\ children[last.pid].reader # "none"
     /\ children[last.pid].written # <<>>
     /\ children[last.pid].pipe = <<>>)
    => (/\ last.res.ok
        /\ last.res.text = Unlines(children[last.pid].written))

\* C10: no step changes the record under a handle from Stopped to Running.
C10_StoppedStaysStopped ==
    [][\A h \in DOMAIN registry :
          registry[h].status = Stopped
          => (h \in DOMAIN registry' => registry'[h].status # Running)]_vars

IsPrefix(a, b) == Len(a) <= Len(b) /\ SubSeq(b, 1, Len(a)) = a

\* C11: the buffer of a handle only grows: every step keeps each key of the
\* output map, and the text under it before the step is a prefix of the text
\* under it after the step.
C11_OutputAppendOnly ==
    [][\A h \in DOMAIN output :
          /\ h \in DOMAIN output'
          /\ IsPrefix(output[h], output'[h])]_vars

\* C12: the handle returned by a successful spawn_cli_process is positive
\* and was not a key of the registry before the call.
C12_SpawnHandleFresh ==
    [][(last'.op = "spawn_cli_process" /\ last'.res.ok)
       => (/\ last'.res.handle > 0
           /\ last'.res.handle \notin DOMAIN registry)]_vars

\* The closed set of backend type tags.
KnownTags == {Ollama, Localai, Docker, Python, Node, Custom}

IsUnknownTypeError(res) == ~res.ok /\ res.err = UnknownRuntimeType

\* C13: get_runtime_status returns the unknown-type error exactly if the
\* type tag of the identifier is outside the closed set of tags.
C13_UnknownExactlyOutsideSet ==
    last.op = "get_runtime_status"
    => (IsUnknownTypeError(last.res) <=> TypeTag(last.id) \notin KnownTags)

\* The malformed identifiers: empty, "docker", "docker_".
MalformedIds == {EmptyId, Docker, DockerEmptyRefId}

InvalidIdErrors == {"Invalid runtime ID", "Invalid Docker runtime ID"}

\* C14: on a malformed identifier start_runtime, stop_runtime,
\* get_runtime_status and estimate_resource_usage return an
\* invalid-identifier error, spawn no child and insert no record.
C14_MalformedRejected ==
    [][(/\ last'.op \in {"start_runtime", "stop_runtime", "get_runtime_status",
                         "estimate_resource_usage"}
        /\ last'.id \in MalformedIds)
       => (/\ ~last'.res.ok
           /\ last'.res.err \in InvalidIdErrors
           /\ children' = children
           /\ registry' = registry)]_vars

\* C15: get_runtime_status on a python or node identifier returns ok with
\* status stopped and no version, port or error, in every state.
C15_InterpreterAlwaysStopped ==
    (last.op = "get_runtime_status" /\ TypeTag(last.id) \in {Python, Node})
    => last.res = OkStatus(RuntimeStatus("stopped", None, None, None))

\* The status of python is queried while a process started from the
\* interpreter's path is recorded as Running and the port answers.
C15_Witness ==
    /\ last.op = "get_runtime_status"
    /\ last.id = PythonId
    /\ last.probe = "success"
    /\ last.res.ok
    /\ \E h \in DOMAIN registry :
          /\ registry[h].tool_id \in InterpreterPaths
          /\ registry[h].status = Running
          /\ children[h].alive

\* C16: for ollama and localai the status follows the HTTP probe: success
\* gives running, another response error, no connection stopped; an error
\* message is present exactly if the status is error.
C16_StatusFollowsProbe ==
    (last.op = "get_runtime_status" /\ TypeTag(last.id) \in {Ollama, Localai})
    => (/\ last.res.ok
        /\ last.res.status.status \in {"running", "stopped", "error"}
        /\ last.res.status.status =
              (CASE last.probe = "success" -> "running"
                 [] last.probe = "status" -> "error"
                 [] OTHER -> "stopped")
        /\ (last.res.status.error # None <=> last.res.status.status = "error"))

\* Ollama has answered with a response that is no success.
C16_Witness ==
    /\ last.op = "get_runtime_status"
    /\ last.id = OllamaId
    /\ last.probe = "status"
    /\ last.res.status.status = "error"
    /\ last.res.status.error = Some("Ollama API returned error")

\* C17: a returned ResourceUsage has memory and CPU of at least zero, and
\* a well-formed identifier the host has no process (or container) for
\* yields ok with zero memory and zero CPU.
C17_UsageNonNegative ==
    last.op = "estimate_resource_usage"
    => (/\ last.res.ok => (last.res.usage.memory_mb >= 0 /\ last.res.usage.cpu_percent >= 0)
        /\ (last.probe = "absent" /\ last.id \notin MalformedIds)
           => last.res = OkUsage(ResourceUsage(0, None, 0)))

\* C19: after a successful start_runtime on a docker identifier the
\* returned handle is a key of the registry and no key of the output map.
C19_DockerHandleRecorded ==
    (last.op = "start_runtime" /\ last.res.ok /\ TypeTag(last.id) = Docker)
    => (/\ last.res.handle \in DOMAIN registry
        /\ last.res.handle \notin DOMAIN output)

\* The sum of the byte values of a string, as a natural number.
RECURSIVE SumOfBytes(_)
SumOfBytes(str) ==
    IF str = <<>> THEN 0 ELSE ByteOf(Head(str)) + SumOfBytes(Tail(str))

\* C20: the handle of a successful start_runtime on a docker identifier
\* is the sum of the byte values of the container reference modulo the
\* width of the handle, in every state of the registry.
C20_PseudoHandleIsByteSum ==
    (last.op = "start_runtime" /\ last.res.ok /\ TypeTag(last.id) = Docker)
    => last.res.handle = SumOfBytes(split(last.id, Underscore)[2]) % U32Modulus

\* The container "abc" has been started while a record is registered: the
\* sum of its bytes has wrapped.
C20_Witness ==
    /\ last.op = "start_runtime"
    /\ last.id = DockerAbcId
    /\ last.res.ok
    /\ last.res.handle < ByteOf("a")
    /\ DOMAIN registry # {}

\* C18: in the result of one scan_runtimes call every identifier is
\* non-empty and no two runtimes have the same identifier.
C18_ScanIdsUnique ==
    last.op = "scan_runtimes"
    => (/\ last.res.ok
        /\ \A i \in DOMAIN last.res.runtimes : last.res.runtimes[i].id # <<>>
        /\ \A i, j \in DOMAIN last.res.runtimes :
              last.res.runtimes[i].id = last.res.runtimes[j].id => i = j)

\* A scan has returned a runtime of every detector, the docker executable
\* among them, and the two containers of the same image.
C18_Witness ==
    /\ last.op = "scan_runtimes"
    /\ Len(last.res.runtimes) = Len(RUNTIME_DETECTORS) + 2
    /\ \E i, j \in DOMAIN last.res.runtimes :
          /\ i # j
          /\ last.res.runtimes[i].version = last.res.runtimes[j].version
          /\ last.res.runtimes[i].runtime_type = Docker
          /\ last.res.runtimes[j].runtime_type = Docker

\* C29: a start_runtime call that returns an error leaves the registry and
\* the output map as they were; a start_runtime call that changes the
\* registry has returned the handle of a child it spawned.
C29_FailedStartChangesNothing ==
    [][last'.op = "start_runtime"
       => (/\ ~last'.res.ok => (registry' = registry /\ output' = output)
           /\ registry' # registry
              => (/\ last'.res.ok
                  /\ last'.res.handle \in DOMAIN children'
                  /\ children'[last'.res.handle].alive))]_vars

\* A docker start has failed while a handle is registered and has text.
C29_Witness ==
    /\ last.op = "start_runtime"
    /\ TypeTag(last.id) = Docker
    /\ last.res.err = "Docker start failed"
    /\ \E h \in DOMAIN registry : h \in DOMAIN output /\ output[h] # <<>>

\* Everything after the first "_" of an identifier.
RECURSIVE Discriminator(_)
Discriminator(runtime_id) ==
    IF runtime_id = <<>>
    THEN <<>>
    ELSE IF Head(runtime_id) = Underscore
         THEN Tail(runtime_id)
         ELSE Discriminator(Tail(runtime_id))

\* C21: a successful start_runtime on docker_<discriminator> has started
\* the container whose reference is the whole discriminator: its handle
\* is the one computed from that reference.
C21_WholeDiscriminator ==
    (last.op = "start_runtime" /\ last.res.ok /\ TypeTag(last.id) = Docker)
    => last.res.handle = pseudo_pid(Discriminator(last.id))

\* C22: get_runtime_status on a docker identifier with a container
\* reference reports running if the inspected state is running, stopped if
\* it is another state, and the status error with a message if docker
\* cannot be run or the inspection fails.
C22_DockerStatusReflectsInspect ==
    (/\ last.op = "get_runtime_status"
     /\ TypeTag(last.id) = Docker
     /\ last.id \notin MalformedIds)
    => (/\ last.res.ok
        /\ last.res.status.status =
              (CASE last.probe = "running" -> "running"
                 [] last.probe = "exited" -> "stopped"
                 [] OTHER -> "error")
        /\ last.res.status.status = "error" => last.res.status.error # None)

\* C24: a successful restart_runtime leaves a Running record under the
\* handle it returns, the handle was no key of the registry before, and the
\* records that were there are as they were.
C24_RestartCreatesNewRecord ==
    [][(last'.op = "restart_runtime" /\ last'.res.ok)
       => (/\ last'.res.handle \in DOMAIN registry'
           /\ registry'[last'.res.handle].status = Running
           /\ last'.res.handle \notin DOMAIN registry
           /\ \A h \in DOMAIN registry :
                 h \in DOMAIN registry' /\ registry'[h] = registry[h])]_vars

\* C30: get_runtime_status and estimate_resource_usage change neither
\* map, and what they report follows the host, not the registry: a status
\* is running exactly if the probe of a server or container said so, and a
\* usage is not zero only if the host has the runtime.
C30_QueriesIgnoreRegistry ==
    [][(last'.op \in {"get_runtime_status", "estimate_resource_usage"})
       => (/\ registry' = registry
           /\ output' = output
           /\ (last'.op = "get_runtime_status" /\ last'.res.ok)
              => (last'.res.status.status = "running"
                  <=> (/\ last'.probe \in {"success", "running"}
                       /\ TypeTag(last'.id) \notin {Python, Node}))
           /\ (last'.op = "estimate_resource_usage" /\ last'.res.ok
                /\ last'.res.usage # ResourceUsage(0, None, 0))
              => last'.probe = "present")]_vars

\* The status of ollama is reported as running while its only record has
\* been set to Stopped by kill_process.
C30_Witness ==
    /\ last.op = "get_runtime_status"
    /\ last.id = OllamaId
    /\ last.res.ok
    /\ last.res.status.status = "running"
    /\ DOMAIN registry # {}
    /\ \A h \in DOMAIN registry :
          registry[h].tool_id = "ollama" /\ registry[h].status = Stopped


\* The mutex a call in flight is about to lock, if it stands before one.
WaitsFor(t) ==
    IF tasks[t].pc = "lock1" THEN LockOrder(tasks[t].op)[1]
    ELSE IF tasks[t].pc = "lock2" THEN LockOrder(tasks[t].op)[Len(LockOrder(tasks[t].op))]
    ELSE "-"

\* C25: each lock is held for a single map operation: no call holds the
\* registry lock while it waits for or holds the output lock, and no call
\* holds a lock while its subprocess spawn or external command runs.
C25_LocksHeldForOneOperation ==
    \A t \in TaskIds :
        /\ ~(locks["registry"] = t /\ (WaitsFor(t) = "output" \/ locks["output"] = t))
        /\ tasks[t].pc \in {"stop", "command", "sleep"}
           => (locks["registry"] # t /\ locks["output"] # t)

\* C27: no call takes the registry lock while it holds the output lock,
\* and under fair scheduling every call that was made returns.
C27_EveryCallReturns ==
    /\ [](\A t \in TaskIds : ~(locks["output"] = t /\ WaitsFor(t) = "registry"))
    /\ \A t \in TaskIds : (tasks[t].pc # "idle") ~> (tasks[t].pc = "done")

\* A call stands before the registry lock while another call, which has
\* still to lock the output map, holds it.
C27_Witness ==
    \E t \in TaskIds, u \in TaskIds :
        /\ t # u
        /\ locks["registry"] = t
        /\ WaitsFor(t) = "output"
        /\ WaitsFor(u) = "registry"
        /\ tasks[u].op \in {"send_to_process", "spawn_cli_process"}

\* The orders in which the tasks' calls can have taken effect.
CallOrders ==
    {o \in [1..Cardinality(TaskIds) -> TaskIds] :
        \A i \in DOMAIN o : \A j \in DOMAIN o : o[i] = o[j] => i = j}

RECURSIVE RecordsOf(_)
RecordsOf(o) ==
    IF o = <<>> THEN <<>>
    ELSE InputRecord(tasks[Head(o)].input) \o RecordsOf(Tail(o))

\* C28: when every task has made a successful send_to_process on the one
\* handle, which the output map holds, the buffer is what it was before
\* the calls followed by the whole records of the calls, in some order.
C28_NoInputLost ==
    \A h \in Handles :
        (/\ h \in DOMAIN output
         /\ \A t \in TaskIds : /\ tasks[t].pc = "done"
                               /\ tasks[t].op = "send_to_process"
                               /\ tasks[t].pid = h
                               /\ tasks[t].res.ok)
        => \E o \in CallOrders : output[h] = Warm.s.output[h] \o RecordsOf(o)

C28_Witness ==
    /\ \A t \in TaskIds : /\ tasks[t].pc = "done"
                          /\ tasks[t].op = "send_to_process"
                          /\ tasks[t].pid = Warm.res.handle
                          /\ tasks[t].res.ok
    /\ \E t \in TaskIds, u \in TaskIds : tasks[t].input # tasks[u].input
    /\ output[Warm.res.handle] # <<>>

\* The steps of a restart_runtime on the identifier.
RestartSteps(id) ==
    <<Event("stop_runtime", id, EmptyPath, NoArgs, NoDir),
      Event("sleep", id, EmptyPath, NoArgs, NoDir),
      Event("start_runtime", id, EmptyPath, NoArgs, NoDir)>>

\* C23: a restart_runtime has taken, at any moment, an initial part of the
\* steps stop, sleep, start (with an empty path, no arguments and no
\* directory), and all three when its start has run.
C23_RestartStepsInOrder ==
    \A t \in TaskIds :
        tasks[t].op = "restart_runtime"
        => /\ IsPrefix(tasks[t].log, RestartSteps(tasks[t].id))
           /\ tasks[t].pc \in {"lock1", "done"} => tasks[t].log = RestartSteps(tasks[t].id)

\* A restart that has returned a handle while another call started a
\* runtime too.
C23_Witness ==
    \E t \in TaskIds, u \in TaskIds :
        /\ tasks[t].op = "restart_runtime"
        /\ tasks[t].pc = "done"
        /\ tasks[t].res.ok
        /\ Len(tasks[t].log) = Len(restart_runtime_plan)
        /\ tasks[u].op = "start_runtime"
        /\ tasks[u].pc = "done"


====
